---- MODULE Spec2Model ----
(***************************************************************************)
(* A model of the booking availability check and the payment               *)
(* reconciliation of acq-be: BookingService (create, cancel),              *)
(* BookingController.initiatePayment, PaymentService (createPayment,       *)
(* getPaymentStatus, updateBookingStatus), PaymentController.handleWebhook *)
(* and PaymentStatusService.  Every `await` of a handler (a database call, *)
(* a call of the gateway, a call of the mailer) is one atomic step, and    *)
(* the steps of concurrent requests interleave freely: the code opens no   *)
(* transaction and takes no lock.                                          *)
(*                                                                         *)
(* Time is counted in ticks of 20 minutes, money in centavos.              *)
(***************************************************************************)
EXTENDS Integers, Sequences, FiniteSets, TLC

\* ------------------------------------------------------------------ bounds
MaxTime == 2          \* instants are 0..MaxTime
MaxBookings == 2      \* rows of the bookings table
MaxCharges == 1       \* charges the gateway creates
LifePolls == 1        \* calls of getPaymentStatus, in Spec
ReconCalls == 2       \* webhook deliveries and calls of getPaymentStatus, in SpecRecon
InitRows == 1         \* rows of the bookings table in the initial states of SpecCreate
ProbeTime == 4        \* instants of SpecOverlap are 0..ProbeTime
PriceCalls == 1       \* webhook deliveries and calls of getPaymentStatus, in SpecPrice
PayCharges == 2       \* charges the gateway creates, in SpecPay

TicksPerHour == 3
MaxAttempts == 7      \* pollPaymentStatus is called with maxAttempts in 0..MaxAttempts
                      \* or with its default

\* pollPaymentStatus: the default of maxAttempts, the cap of the backoff and the
\* delay after a failed fetch, in milliseconds.
DefaultMaxAttempts == 20
BackoffCapMs == 30000
ErrorDelayMs == 5000
MsPerSecond == 1000

Times == 0..MaxTime
\* The slots of the requests in flight: two requests race.
Procs == {1, 2}

Users == {"owner", "alice", "bob"}

\* The parking_spots table (written by the listing and approval workflow,
\* which is outside this model): id |-> row.  Prices are centavos per hour.
spots ==
  [i \in 1..2 |->
     IF i = 1 THEN [ownerId |-> "owner", status |-> "APPROVED", pricePerHour |-> 10000]
     ELSE [ownerId |-> "owner", status |-> "PENDING", pricePerHour |-> 5050]]

\* Spot ids a request may name; the last one is no row of the table.
SpotIds == 1..3

BookingStatus == {"PENDING", "CONFIRMED", "CANCELLED", "COMPLETED"}
PaymentStatus == {"PENDING", "SUCCEEDED", "FAILED", "CANCELLED"}
\* What the gateway may report: its vocabulary and one status outside it.
Reported == PaymentStatus \cup {"REFUNDED"}

VARIABLES
  bookings,       \* the bookings table: a sequence, the index is the id
  payments,       \* the payments table: a sequence of rows
  webhookEvents,  \* the webhook_events table: the set of event ids
  charges,        \* number of charges the gateway has created
  sent,           \* notifications handed to the mailer, per payment reference
  procs,          \* the requests in flight: slot |-> frame
  last,           \* operation and outcome of the request that returned last
  calls,          \* reconciliations (webhook deliveries, polls) that may still start
  probe,          \* input and output of one evaluation of the overlap query
  poller,         \* the pollPaymentStatus call: its loop counter and what it has done
  prices          \* pricePerHour of the parking spots, in centavos

vars == <<bookings, payments, webhookEvents, charges, sent, procs, last, calls, probe, poller, prices>>

NoEvent == <<"none", 0, "none", "none">>

\* The frame of a request: its arguments, its position and its locals.
\* price is the pricePerHour create has read with the spot, amount the amount
\* createPayment is called with (in centavos).  seen, settled, prev,
\* moved and mailed are history, kept for the properties: seen is the number
\* of bookings when create ran its overlap query; settled tells that the payment
\* and its booking already had the reported status when the reconciliation began;
\* prev and moved are the payment status and the booking status the request has
\* overwritten; mailed tells that it has handed the owner's notification over.
Idle ==
  [op |-> "none", pc |-> "idle", user |-> "none",
   spot |-> 0, start |-> 0, end |-> 0, bk |-> 0, ref |-> 0, ext |-> 0,
   ev |-> NoEvent, rep |-> "none", seen |-> 0, settled |-> FALSE, prev |-> "none",
   moved |-> "none", mailed |-> FALSE, price |-> 0, amount |-> 0]

\* No pollPaymentStatus call.  status is what the gateway reported to the fetch
\* under way, wait the delay in milliseconds made after the last fetch, result
\* what the call returned or threw.  History: fetches counts the calls of
\* getPaymentStatus, pendings those that came back without a terminal status,
\* allPending tells that every fetch so far was answered with PENDING.
NoPoller ==
  [pc |-> "idle", ref |-> 0, maxAttempts |-> 0, attempt |-> 0, status |-> "none",
   wait |-> 0, result |-> "none", fetches |-> 0, pendings |-> 0, allPending |-> TRUE]

NoProbe == [spot |-> 0, status |-> "none", s |-> 0, e |-> 0, S |-> 0, E |-> 0, out |-> "none"]

InFlight(p) == procs[p].pc # "idle"

\* The request of slot p returns (or throws) res: the slot is free again.
Return(p, op, res) ==
  /\ procs' = [procs EXCEPT ![p] = Idle]
  /\ last' = [op |-> op, res |-> res]

Goto(p, frame) ==
  /\ procs' = [procs EXCEPT ![p] = frame]
  /\ UNCHANGED last

BookingIds == 1..Len(bookings)
PaymentIds == 1..Len(payments)

\* -------------------------------------------------- BookingService.create
\* Variants of the overlap query: a booking that ends at S matches; a booking that
\* starts at E matches; the status is not looked at.
OverlapWhere_EndTouches(b, spot, S, E) ==
  /\ b.parkingSpotId = spot
  /\ b.status \in {"PENDING", "CONFIRMED"}
  /\ \/ (b.startTime <= S /\ b.endTime >= S)
     \/ (b.startTime < E /\ b.endTime >= E)
     \/ (b.startTime >= S /\ b.endTime <= E)

OverlapWhere_StartTouches(b, spot, S, E) ==
  /\ b.parkingSpotId = spot
  /\ b.status \in {"PENDING", "CONFIRMED"}
  /\ \/ (b.startTime <= S /\ b.endTime > S)
     \/ (b.startTime <= E /\ b.endTime >= E)
     \/ (b.startTime >= S /\ b.endTime <= E)

OverlapWhere_AnyStatus(b, spot, S, E) ==
  /\ b.parkingSpotId = spot
  /\ \/ (b.startTime <= S /\ b.endTime > S)
     \/ (b.startTime < E /\ b.endTime >= E)
     \/ (b.startTime >= S /\ b.endTime <= E)

\* The `where` of the overlap query, on one row b of the bookings table.
OverlapWhere(b, spot, S, E) ==
  /\ b.parkingSpotId = spot
  /\ b.status \in {"PENDING", "CONFIRMED"}
  /\ ~(b.status \in {"CANCELLED", "COMPLETED"})
  /\ \/ (b.startTime <= S /\ b.endTime > S)
     \/ (b.startTime < E /\ b.endTime >= E)
     \/ (b.startTime >= S /\ b.endTime <= E)

\* Math.round(x) for x = num / den >= 0: halves round up.
Round(num, den) == (2 * num + den) \div (2 * den)

\* Math.round(hours * pricePerHour * 100) / 100, in centavos.
TotalPrice(start, end, pricePerHour) ==
  Round((end - start) * pricePerHour, TicksPerHour)

\* Variant: the owner of a spot may book it.
CreateRequest_OwnSpotAllowed(p, user, spot, s, e, now) ==
  IF spot \notin DOMAIN spots THEN Return(p, "create", "NotFound: spot")
  ELSE IF spots[spot].status # "APPROVED"
    THEN Return(p, "create", "BadRequest: spot not available")
  ELSE IF s >= e THEN Return(p, "create", "BadRequest: end after start")
  ELSE IF s < now THEN Return(p, "create", "BadRequest: start in the past")
  ELSE Goto(p, [Idle EXCEPT !.op = "create", !.pc = "overlap", !.user = user,
                            !.spot = spot, !.start = s, !.end = e,
                            !.price = prices[spot]])

\* Variant: an interval of no duration is accepted.
CreateRequest_ZeroDuration(p, user, spot, s, e, now) ==
  IF spot \notin DOMAIN spots THEN Return(p, "create", "NotFound: spot")
  ELSE IF spots[spot].status # "APPROVED"
    THEN Return(p, "create", "BadRequest: spot not available")
  ELSE IF spots[spot].ownerId = user THEN Return(p, "create", "BadRequest: own spot")
  ELSE IF s > e THEN Return(p, "create", "BadRequest: end after start")
  ELSE IF s < now THEN Return(p, "create", "BadRequest: start in the past")
  ELSE Goto(p, [Idle EXCEPT !.op = "create", !.pc = "overlap", !.user = user,
                            !.spot = spot, !.start = s, !.end = e,
                            !.price = prices[spot]])

\* findUnique of the spot and the validations, up to the overlap query, for one
\* request: user, spot and interval from the caller, now from the clock.
CreateRequest(p, user, spot, s, e, now) ==
  IF spot \notin DOMAIN spots THEN Return(p, "create", "NotFound: spot")
  ELSE IF spots[spot].status # "APPROVED"
    THEN Return(p, "create", "BadRequest: spot not available")
  ELSE IF spots[spot].ownerId = user THEN Return(p, "create", "BadRequest: own spot")
  ELSE IF s >= e THEN Return(p, "create", "BadRequest: end after start")
  ELSE IF s < now THEN Return(p, "create", "BadRequest: start in the past")
  ELSE Goto(p, [Idle EXCEPT !.op = "create", !.pc = "overlap", !.user = user,
                            !.spot = spot, !.start = s, !.end = e,
                            !.price = prices[spot]])

CreateValidate(p) ==
  /\ ~InFlight(p)
  /\ Len(bookings) + Cardinality({q \in Procs : procs[q].op = "create"}) < MaxBookings
  /\ \E user \in Users, spot \in SpotIds, s \in Times, e \in Times, now \in Times :
       CreateRequest(p, user, spot, s, e, now)
  /\ UNCHANGED <<bookings, payments, webhookEvents, charges, sent, calls, probe, poller, prices>>

\* booking.findFirst with the overlap query.
CreateOverlap(p) ==
  /\ procs[p].op = "create" /\ procs[p].pc = "overlap"
  /\ LET f == procs[p] IN
       IF \E b \in BookingIds : OverlapWhere(bookings[b], f.spot, f.start, f.end)
       THEN Return(p, "create", "BadRequest: already booked")
       ELSE Goto(p, [f EXCEPT !.pc = "insert", !.seen = Len(bookings)])
  /\ UNCHANGED <<bookings, payments, webhookEvents, charges, sent, calls, probe, poller, prices>>

\* booking.create.
CreateInsert(p) ==
  /\ procs[p].op = "create" /\ procs[p].pc = "insert"
  /\ LET f == procs[p] IN
       bookings' = Append(bookings,
          [parkingSpotId |-> f.spot, userId |-> f.user,
           startTime |-> f.start, endTime |-> f.end,
           totalPrice |-> TotalPrice(f.start, f.end, f.price),
           status |-> "PENDING"])
  /\ Return(p, "create", "created")
  /\ UNCHANGED <<payments, webhookEvents, charges, sent, calls, probe, poller, prices>>

\* ---------------------------------------------------- BookingService.findOne
\* The outcome of findOne(id, userId): "ok" or the exception it throws.
FindOne(id, userId) ==
  IF id \notin BookingIds THEN "NotFound: booking"
  ELSE IF bookings[id].userId # userId /\ spots[bookings[id].parkingSpotId].ownerId # userId
    THEN "NotFound: booking"
  ELSE "ok"

\* The rows of the payments table with this bookingId (at most one: the column is unique).
PaymentsOf(id) == {i \in PaymentIds : payments[i].bookingId = id}
PaymentsByRef(ref) == {i \in PaymentIds : payments[i].referenceNumber = ref}
PaymentsByExt(ext) == {i \in PaymentIds : payments[i].externalId = ext}

\* -------------------------------------------------- BookingService.cancel
CancelFind_NoStatusCheck(p) ==
  /\ ~InFlight(p)
  /\ \E id \in 1..MaxBookings, user \in Users :
       IF FindOne(id, user) # "ok" THEN Return(p, "cancel", FindOne(id, user))
       ELSE IF bookings[id].userId # user THEN Return(p, "cancel", "BadRequest: not your booking")
       ELSE Goto(p, [Idle EXCEPT !.op = "cancel", !.user = user, !.bk = id,
                       !.pc = IF PaymentsOf(id) # {} THEN "findPayment" ELSE "update"])
  /\ UNCHANGED <<bookings, payments, webhookEvents, charges, sent, calls, probe, poller, prices>>

\* Variant: whoever may read the booking may cancel it.
CancelRequest_ReaderMayCancel(p, id, user) ==
  IF FindOne(id, user) # "ok" THEN Return(p, "cancel", FindOne(id, user))
  ELSE IF bookings[id].status = "CANCELLED"
    THEN Return(p, "cancel", "BadRequest: already cancelled")
  ELSE IF bookings[id].status = "COMPLETED"
    THEN Return(p, "cancel", "BadRequest: completed")
  ELSE Goto(p, [Idle EXCEPT !.op = "cancel", !.user = user, !.bk = id,
                  !.pc = IF PaymentsOf(id) # {} THEN "findPayment" ELSE "update"])

\* findOne (the booking with its payment) and the checks on the snapshot, for one
\* request of cancel(id, userId).
CancelRequest(p, id, user) ==
  IF FindOne(id, user) # "ok" THEN Return(p, "cancel", FindOne(id, user))
  ELSE IF bookings[id].userId # user THEN Return(p, "cancel", "BadRequest: not your booking")
  ELSE IF bookings[id].status = "CANCELLED"
    THEN Return(p, "cancel", "BadRequest: already cancelled")
  ELSE IF bookings[id].status = "COMPLETED"
    THEN Return(p, "cancel", "BadRequest: completed")
  ELSE Goto(p, [Idle EXCEPT !.op = "cancel", !.user = user, !.bk = id,
                  !.pc = IF PaymentsOf(id) # {} THEN "findPayment" ELSE "update"])

CancelFind(p) ==
  /\ ~InFlight(p)
  /\ \E id \in 1..MaxBookings, user \in Users : CancelRequest(p, id, user)
  /\ UNCHANGED <<bookings, payments, webhookEvents, charges, sent, calls, probe, poller, prices>>

\* payment.findUnique({bookingId}), when the snapshot had a payment.
CancelFindPayment(p) ==
  /\ procs[p].op = "cancel" /\ procs[p].pc = "findPayment"
  /\ LET f == procs[p]
         found == {i \in PaymentsOf(f.bk) : payments[i].status = "PENDING"} IN
       IF found # {}
       THEN Goto(p, [f EXCEPT !.pc = "cancelPayment",
                              !.ref = payments[CHOOSE i \in found : TRUE].referenceNumber])
       ELSE Goto(p, [f EXCEPT !.pc = "update"])
  /\ UNCHANGED <<bookings, payments, webhookEvents, charges, sent, calls, probe, poller, prices>>

\* payment.update({id}, CANCELLED).
CancelPayment(p) ==
  /\ procs[p].op = "cancel" /\ procs[p].pc = "cancelPayment"
  /\ payments' = [i \in PaymentIds |->
        IF payments[i].referenceNumber = procs[p].ref
        THEN [payments[i] EXCEPT !.status = "CANCELLED"] ELSE payments[i]]
  /\ Goto(p, [procs[p] EXCEPT !.pc = "update"])
  /\ UNCHANGED <<bookings, webhookEvents, charges, sent, calls, probe, poller, prices>>

\* booking.update({id}, CANCELLED).
CancelUpdate(p) ==
  /\ procs[p].op = "cancel" /\ procs[p].pc = "update"
  /\ bookings' = [bookings EXCEPT ![procs[p].bk].status = "CANCELLED"]
  /\ Return(p, "cancel", "cancelled")
  /\ UNCHANGED <<payments, webhookEvents, charges, sent, calls, probe, poller, prices>>

\* ---------------------------------------------------- BookingService.devCancel
\* The NODE_ENV check, findOne (the booking with its payment) and the checks on
\* the snapshot: only a CANCELLED booking is refused.
DevCancelFind(p) ==
  /\ ~InFlight(p)
  /\ \E id \in 1..MaxBookings, user \in Users, production \in BOOLEAN :
       IF production THEN Return(p, "devCancel", "BadRequest: production")
       ELSE IF FindOne(id, user) # "ok" THEN Return(p, "devCancel", FindOne(id, user))
       ELSE IF bookings[id].userId # user
         THEN Return(p, "devCancel", "BadRequest: not your booking")
       ELSE IF bookings[id].status = "CANCELLED"
         THEN Return(p, "devCancel", "BadRequest: already cancelled")
       ELSE Goto(p, [Idle EXCEPT !.op = "devCancel", !.user = user, !.bk = id,
                       !.pc = IF PaymentsOf(id) # {} THEN "cancelPayment" ELSE "update"])
  /\ UNCHANGED <<bookings, payments, webhookEvents, charges, sent, calls, probe, poller, prices>>

\* payment.update({bookingId}, CANCELLED), whatever the payment's status.
DevCancelPayment(p) ==
  /\ procs[p].op = "devCancel" /\ procs[p].pc = "cancelPayment"
  /\ payments' = [i \in PaymentIds |->
        IF payments[i].bookingId = procs[p].bk
        THEN [payments[i] EXCEPT !.status = "CANCELLED"] ELSE payments[i]]
  /\ Goto(p, [procs[p] EXCEPT !.pc = "update"])
  /\ UNCHANGED <<bookings, webhookEvents, charges, sent, calls, probe, poller, prices>>

\* booking.update({id}, CANCELLED).
DevCancelUpdate(p) ==
  /\ procs[p].op = "devCancel" /\ procs[p].pc = "update"
  /\ bookings' = [bookings EXCEPT ![procs[p].bk].status = "CANCELLED"]
  /\ Return(p, "devCancel", "cancelled")
  /\ UNCHANGED <<payments, webhookEvents, charges, sent, calls, probe, poller, prices>>

\* ------------------------------------------------------- ParkingService.update
\* The hourly prices an update may set.
NewPrices == {spots[i].pricePerHour : i \in DOMAIN spots}

\* Variant: the bookings of the spot are re-priced.
UpdatePrice_Reprices ==
  \E spot \in SpotIds, pricePerHour \in NewPrices :
    /\ IF spot \notin DOMAIN spots
       THEN /\ last' = [op |-> "updateSpot", res |-> "NotFound: spot"]
            /\ UNCHANGED <<prices, bookings>>
       ELSE /\ prices' = [prices EXCEPT ![spot] = pricePerHour]
            /\ bookings' = [b \in BookingIds |->
                  IF bookings[b].parkingSpotId = spot
                  THEN [bookings[b] EXCEPT !.totalPrice =
                          TotalPrice(bookings[b].startTime, bookings[b].endTime, pricePerHour)]
                  ELSE bookings[b]]
            /\ last' = [op |-> "updateSpot", res |-> "updated"]
    /\ UNCHANGED <<payments, webhookEvents, charges, sent, procs, calls, probe, poller>>

\* findOne of the spot, then parkingSpot.update with the pricePerHour of the DTO:
\* only the row of the spot is written.
UpdatePrice ==
  \E spot \in SpotIds, pricePerHour \in NewPrices :
    /\ IF spot \notin DOMAIN spots
       THEN /\ last' = [op |-> "updateSpot", res |-> "NotFound: spot"]
            /\ UNCHANGED <<prices, bookings>>
       ELSE /\ prices' = [prices EXCEPT ![spot] = pricePerHour]
            /\ UNCHANGED bookings
            /\ last' = [op |-> "updateSpot", res |-> "updated"]
    /\ UNCHANGED <<payments, webhookEvents, charges, sent, procs, calls, probe, poller>>

\* ------------------------------------ BookingController.initiatePayment
\* PaymentService.toAmount: pesos to centavos, Math.round(pesos * 100).
\* A price is kept in centavos here, so pesos = centavos / 100.
ToAmount(centavos) == Round(centavos * 100, 100)

\* PaymentService.mapPaymentStatus.
MapPaymentStatus(status) ==
  CASE status = "PENDING" -> "PENDING"
    [] status = "SUCCEEDED" -> "SUCCEEDED"
    [] status = "FAILED" -> "FAILED"
    [] status = "CANCELLED" -> "CANCELLED"
    [] OTHER -> "PENDING"

\* findOne and the ownership check, for one request of POST bookings/:id/pay.
PayRequest(p, id, user) ==
  IF FindOne(id, user) # "ok" THEN Return(p, "pay", FindOne(id, user))
  ELSE IF bookings[id].userId # user THEN Return(p, "pay", "BadRequest: not your booking")
  ELSE Goto(p, [Idle EXCEPT !.op = "pay", !.pc = "existing", !.user = user, !.bk = id,
                            !.amount = bookings[id].totalPrice])

\* The requests for a payment that have not yet reached the gateway.
Paying == {q \in Procs : procs[q].op \in {"pay", "postPayment"}}

PayFind(p) ==
  /\ ~InFlight(p)
  /\ charges + Cardinality(Paying) < MaxCharges
  /\ \E id \in 1..MaxBookings, user \in Users : PayRequest(p, id, user)
  /\ UNCHANGED <<bookings, payments, webhookEvents, charges, sent, calls, probe, poller, prices>>

\* getPaymentByBookingId: an existing payment is returned as it is.
PayExisting(p) ==
  /\ procs[p].op = "pay" /\ procs[p].pc = "existing"
  /\ IF PaymentsOf(procs[p].bk) # {} THEN Return(p, "pay", "existing")
     ELSE Goto(p, [procs[p] EXCEPT !.pc = "charge"])
  /\ UNCHANGED <<bookings, payments, webhookEvents, charges, sent, calls, probe, poller, prices>>

\* createPayment: POST /payments to the gateway, which creates a charge or fails.
PayCharge(p) ==
  /\ procs[p].op \in {"pay", "postPayment"} /\ procs[p].pc = "charge"
  /\ \/ /\ charges' = charges + 1
        /\ Goto(p, [procs[p] EXCEPT !.pc = "insert", !.ref = charges + 1])
     \/ /\ Return(p, procs[p].op, "GatewayError")
        /\ UNCHANGED charges
  /\ UNCHANGED <<bookings, payments, webhookEvents, sent, calls, probe, poller, prices>>

\* createPayment: payment.create; bookingId is a unique column and a foreign key.
PayInsert(p) ==
  /\ procs[p].op \in {"pay", "postPayment"} /\ procs[p].pc = "insert"
  /\ LET f == procs[p] IN
       IF f.bk \notin BookingIds
       THEN Return(p, f.op, "error: no booking") /\ UNCHANGED payments
       ELSE IF PaymentsOf(f.bk) # {}
       THEN Return(p, f.op, "error: payment exists") /\ UNCHANGED payments
       ELSE /\ payments' = Append(payments,
                 [referenceNumber |-> f.ref, externalId |-> f.ref, bookingId |-> f.bk,
                  amount |-> ToAmount(f.amount),
                  status |-> MapPaymentStatus("PENDING")])
            /\ Return(p, f.op, "paid")
  /\ UNCHANGED <<bookings, webhookEvents, charges, sent, calls, probe, poller, prices>>

\* POST bookings/:id/pay, where the gateway may create up to PayCharges charges.
InitiatePayment(p) ==
  /\ ~InFlight(p)
  /\ charges + Cardinality(Paying) < PayCharges
  /\ \E id \in 1..MaxBookings, user \in Users : PayRequest(p, id, user)
  /\ UNCHANGED <<bookings, payments, webhookEvents, charges, sent, calls, probe, poller, prices>>

\* --------------------------------------------- PaymentController.createPayment
\* The amounts the body of POST payments may carry, in centavos: the prices of the
\* bookings of spot 1, and one centavo.
DtoAmounts ==
  {1} \cup {TotalPrice(0, e, spots[1].pricePerHour) : e \in Times \ {0}}

\* POST payments: bookingId and amount of the body go to PaymentService.createPayment
\* as they are.
PostPayment(p) ==
  /\ ~InFlight(p)
  /\ charges + Cardinality(Paying) < PayCharges
  /\ \E id \in 1..MaxBookings, user \in Users, amount \in DtoAmounts :
       Goto(p, [Idle EXCEPT !.op = "postPayment", !.pc = "charge", !.user = user,
                            !.bk = id, !.amount = amount])
  /\ UNCHANGED <<bookings, payments, webhookEvents, charges, sent, calls, probe, poller, prices>>

\* ----------------------------------------- the two updateBookingStatus
BookingStatusFor_FailedConfirms(paymentStatus) ==
  CASE paymentStatus \in {"SUCCEEDED", "FAILED"} -> "CONFIRMED"
    [] paymentStatus = "CANCELLED" -> "CANCELLED"
    [] OTHER -> "none"

BookingStatusFor_CancelledIgnored(paymentStatus) ==
  CASE paymentStatus = "SUCCEEDED" -> "CONFIRMED"
    [] paymentStatus = "FAILED" -> "CANCELLED"
    [] OTHER -> "none"

\* The booking status updateBookingStatus writes for a reported payment status
\* ("none": the switch returns without writing).
BookingStatusFor(paymentStatus) ==
  CASE paymentStatus = "SUCCEEDED" -> "CONFIRMED"
    [] paymentStatus \in {"FAILED", "CANCELLED"} -> "CANCELLED"
    [] OTHER -> "none"

\* payment.update({referenceNumber}, status): the row is rewritten.
SetPaymentStatus(ref, status) ==
  payments' = [i \in PaymentIds |->
     IF payments[i].referenceNumber = ref
     THEN [payments[i] EXCEPT !.status = status] ELSE payments[i]]

StatusOfRef(ref) == payments[CHOOSE i \in PaymentsByRef(ref) : TRUE].status

\* One of these payments and its booking are already as the report says.
Settled(rows, reported) ==
  /\ reported \in {"SUCCEEDED", "FAILED", "CANCELLED"}
  /\ \E i \in rows :
       /\ payments[i].status = reported
       /\ bookings[payments[i].bookingId].status = BookingStatusFor(reported)
BookingOfRef(ref) == payments[CHOOSE i \in PaymentsByRef(ref) : TRUE].bookingId

\* updateBookingStatus, first await: payment.findUnique with its booking, then
\* the switch on the reported status.
FindForBooking(p, op, res) ==
  LET f == procs[p] IN
    IF PaymentsByRef(f.ref) = {} THEN Return(p, op, res)
    ELSE IF BookingStatusFor(f.rep) = "none" THEN Return(p, op, res)
    ELSE Goto(p, [f EXCEPT !.pc = "updateBooking", !.bk = BookingOfRef(f.ref)])

\* updateBookingStatus, second await: booking.update, then the gate of the e-mails.
UpdateBooking(p, op, res) ==
  LET f == procs[p] IN
    /\ bookings' = [bookings EXCEPT ![f.bk].status = BookingStatusFor(f.rep)]
    /\ IF f.rep = "SUCCEEDED"
       THEN Goto(p, [f EXCEPT !.pc = "ownerEmail", !.moved = bookings[f.bk].status])
       ELSE Return(p, op, res)

\* sendBookingConfirmationEmail: the owner's Gmail account is looked up and, when
\* there is one, the message is handed to the mailer; a failure is caught and logged.
OwnerEmail(p) ==
  \E outcome \in {"sent", "not connected", "failed"} :
    /\ sent' = IF outcome = "sent"
               THEN [sent EXCEPT ![procs[p].ref].owner = @ + 1]
               ELSE sent
    /\ Goto(p, [procs[p] EXCEPT !.pc = "guestEmail", !.mailed = (outcome = "sent")])

\* -------------------------------------- PaymentController.handleWebhook
EventTypes == {"payment.completed", "payment.failed", "payment.cancelled", "payment.refunded"}

NoId == <<"no-id", 0, "none", "none">>

\* event.data.transactionId || event.data.fullOrderRef || 'no-id'.  A transaction
\* id names one event; without it the payment's order reference is the key.
EventId(kind, ext, typ, status) ==
  IF kind = "tx" THEN <<"tx", ext, typ, status>>
  ELSE IF kind = "ref" THEN <<"ref", ext, "none", "none">>
  ELSE NoId

\* The switch on the event type ("unhandled": the default branch).
NewStatus(typ, status) ==
  CASE typ = "payment.completed" -> status
    [] typ = "payment.failed" -> "FAILED"
    [] typ = "payment.cancelled" -> "CANCELLED"
    [] OTHER -> "unhandled"

\* The status updatePaymentStatusFromAPI writes.
StatusFromAPI(paymentStatus) ==
  IF paymentStatus = "SUCCEEDED" THEN "SUCCEEDED"
  ELSE IF paymentStatus = "FAILED" THEN "FAILED"
  ELSE IF paymentStatus = "CANCELLED" THEN "CANCELLED"
  ELSE "PENDING"

\* The signature check, JSON.parse and the event id, up to the first await, for
\* one delivery: secret tells that EXPERIA_PG_WEBHOOK_SECRET is set, sig is the
\* experia-signature header, the rest is the body.
Deliver(p, secret, sig, malformed, kind, ext, typ, status) ==
  IF secret /\ sig = "invalid" THEN Return(p, "webhook", "error: signature")
  ELSE IF malformed THEN Return(p, "webhook", "error: body")
  ELSE LET f == [Idle EXCEPT !.op = "webhook", !.ext = ext,
                             !.ev = EventId(kind, ext, typ, status),
                             !.rep = NewStatus(typ, status),
                             !.settled = Settled(PaymentsByExt(ext),
                                                 NewStatus(typ, status))] IN
    IF f.ev # NoId THEN Goto(p, [f EXCEPT !.pc = "checkEvent"])
    ELSE IF ext = 0 THEN Return(p, "webhook", "received")
    ELSE Goto(p, [f EXCEPT !.pc = "findPayment", !.ev = NoEvent])

Signatures == {"valid", "invalid", "absent", "test"}
EventKeys == {"tx", "ref", "none"}

WebhookReceive(p) ==
  /\ ~InFlight(p)
  /\ calls > 0
  /\ calls' = calls - 1
  /\ \E secret \in BOOLEAN, sig \in Signatures, malformed \in BOOLEAN, kind \in EventKeys,
        ext \in 0..MaxCharges, typ \in EventTypes, status \in Reported :
       /\ typ # "payment.completed" => status = "PENDING"
       /\ Deliver(p, secret, sig, malformed, kind, ext, typ, status)
  /\ UNCHANGED <<bookings, payments, webhookEvents, charges, sent, probe, poller, prices>>

\* webhookEvent.findUnique({eventId}).
WebhookCheckEvent(p) ==
  /\ procs[p].op = "webhook" /\ procs[p].pc = "checkEvent"
  /\ IF procs[p].ev \in webhookEvents THEN Return(p, "webhook", "received")
     ELSE Goto(p, [procs[p] EXCEPT !.pc = "recordEvent"])
  /\ UNCHANGED <<bookings, payments, webhookEvents, charges, sent, calls, probe, poller, prices>>

\* webhookEvent.create({eventId}): eventId is a unique column, a second insert
\* throws and the handler rethrows.  Then the check of data.externalId.
WebhookRecordEvent(p) ==
  /\ procs[p].op = "webhook" /\ procs[p].pc = "recordEvent"
  /\ LET f == procs[p] IN
       IF f.ev \in webhookEvents
       THEN Return(p, "webhook", "error: event exists") /\ UNCHANGED webhookEvents
       ELSE /\ webhookEvents' = webhookEvents \cup {f.ev}
            /\ IF f.ext = 0 THEN Return(p, "webhook", "received")
               ELSE Goto(p, [f EXCEPT !.pc = "findPayment", !.ev = NoEvent])
  /\ UNCHANGED <<bookings, payments, charges, sent, calls, probe, poller, prices>>

\* getPaymentByExternalId, then the switch on the event type.
WebhookFindPayment(p) ==
  /\ procs[p].op = "webhook" /\ procs[p].pc = "findPayment"
  /\ LET f == procs[p] IN
       IF PaymentsByExt(f.ext) = {} THEN Return(p, "webhook", "received")
       ELSE IF f.rep = "unhandled" THEN Return(p, "webhook", "received")
       ELSE Goto(p, [f EXCEPT !.pc = "updatePayment", !.ext = 0,
               !.ref = payments[CHOOSE i \in PaymentsByExt(f.ext) : TRUE].referenceNumber])
  /\ UNCHANGED <<bookings, payments, webhookEvents, charges, sent, calls, probe, poller, prices>>

\* PaymentStatusService.updatePaymentStatusFromAPI: payment.update.
WebhookUpdatePayment(p) ==
  /\ procs[p].op = "webhook" /\ procs[p].pc = "updatePayment"
  /\ SetPaymentStatus(procs[p].ref, StatusFromAPI(procs[p].rep))
  /\ Goto(p, [procs[p] EXCEPT !.pc = "findForBooking", !.prev = StatusOfRef(procs[p].ref)])
  /\ UNCHANGED <<bookings, webhookEvents, charges, sent, calls, probe, poller, prices>>

\* PaymentStatusService.updateBookingStatus: payment.findUnique.
WebhookFindForBooking(p) ==
  /\ procs[p].op = "webhook" /\ procs[p].pc = "findForBooking"
  /\ FindForBooking(p, "webhook", "received")
  /\ UNCHANGED <<bookings, payments, webhookEvents, charges, sent, calls, probe, poller, prices>>

\* PaymentStatusService.updateBookingStatus: booking.update.
WebhookUpdateBooking(p) ==
  /\ procs[p].op = "webhook" /\ procs[p].pc = "updateBooking"
  /\ UpdateBooking(p, "webhook", "received")
  /\ UNCHANGED <<payments, webhookEvents, charges, sent, calls, probe, poller, prices>>

\* PaymentStatusService.sendBookingConfirmationEmail.
WebhookOwnerEmail(p) ==
  /\ procs[p].op = "webhook" /\ procs[p].pc = "ownerEmail"
  /\ OwnerEmail(p)
  /\ UNCHANGED <<last, bookings, payments, webhookEvents, charges, calls, probe, poller, prices>>

\* Variant: a failure of the mailer is thrown on to the caller.
WebhookGuestEmail_FailureThrows(p) ==
  /\ procs[p].op = "webhook" /\ procs[p].pc = "guestEmail"
  /\ \E delivered \in BOOLEAN :
       IF delivered
       THEN /\ sent' = [sent EXCEPT ![procs[p].ref].guest = @ + 1]
            /\ Return(p, "webhook", "received")
       ELSE /\ UNCHANGED sent
            /\ Return(p, "webhook", "error: mail")
  /\ UNCHANGED <<bookings, payments, webhookEvents, charges, calls, probe, poller, prices>>

\* PaymentStatusService.sendGuestConfirmationEmail: the message is handed to the
\* mailer, or the mailer throws and the catch logs it; then handleWebhook returns.
WebhookGuestEmail(p) ==
  /\ procs[p].op = "webhook" /\ procs[p].pc = "guestEmail"
  /\ \E delivered \in BOOLEAN :
       sent' = IF delivered THEN [sent EXCEPT ![procs[p].ref].guest = @ + 1] ELSE sent
  /\ Return(p, "webhook", "received")
  /\ UNCHANGED <<bookings, payments, webhookEvents, charges, calls, probe, poller, prices>>

\* ------------------------------------------ PaymentService.getPaymentStatus
\* GET /payments/{referenceNumber} at the gateway: it fails, or it reports this
\* status of a charge it knows.
GatewayFetch(p, ref, status) ==
  IF status = "error" THEN Return(p, "poll", "GatewayError")
  ELSE /\ ref <= charges
       /\ Goto(p, [Idle EXCEPT !.op = "poll", !.pc = "updatePayment",
                               !.ref = ref, !.rep = status,
                               !.settled = Settled(PaymentsByRef(ref), status)])

PollFetch(p) ==
  /\ ~InFlight(p)
  /\ calls > 0
  /\ calls' = calls - 1
  /\ \E ref \in 1..MaxCharges, status \in Reported \cup {"error"} :
       GatewayFetch(p, ref, status)
  /\ UNCHANGED <<bookings, payments, webhookEvents, charges, sent, probe, poller, prices>>

\* payment.update({referenceNumber}); it throws when there is no such row.
PollUpdatePayment(p) ==
  /\ procs[p].op = "poll" /\ procs[p].pc = "updatePayment"
  /\ IF PaymentsByRef(procs[p].ref) = {}
     THEN Return(p, "poll", "error: no payment") /\ UNCHANGED payments
     ELSE /\ SetPaymentStatus(procs[p].ref, MapPaymentStatus(procs[p].rep))
          /\ Goto(p, [procs[p] EXCEPT !.pc = "findForBooking",
                                      !.prev = StatusOfRef(procs[p].ref)])
  /\ UNCHANGED <<bookings, webhookEvents, charges, sent, calls, probe, poller, prices>>

\* PaymentService.updateBookingStatus: payment.findUnique.
PollFindForBooking(p) ==
  /\ procs[p].op = "poll" /\ procs[p].pc = "findForBooking"
  /\ FindForBooking(p, "poll", "ok")
  /\ UNCHANGED <<bookings, payments, webhookEvents, charges, sent, calls, probe, poller, prices>>

\* PaymentService.updateBookingStatus: booking.update.
PollUpdateBooking(p) ==
  /\ procs[p].op = "poll" /\ procs[p].pc = "updateBooking"
  /\ UpdateBooking(p, "poll", "ok")
  /\ UNCHANGED <<payments, webhookEvents, charges, sent, calls, probe, poller, prices>>

\* PaymentService.sendBookingConfirmationEmail.
PollOwnerEmail(p) ==
  /\ procs[p].op = "poll" /\ procs[p].pc = "ownerEmail"
  /\ OwnerEmail(p)
  /\ UNCHANGED <<last, bookings, payments, webhookEvents, charges, calls, probe, poller, prices>>

\* PaymentService.sendGuestConfirmationEmail: the query of this service does not
\* include parkingSpot.owner, so building the body throws on owner.firstName; the
\* catch logs it and nothing reaches the mailer.  Then getPaymentStatus returns.
PollGuestEmail(p) ==
  /\ procs[p].op = "poll" /\ procs[p].pc = "guestEmail"
  /\ Return(p, "poll", "ok")
  /\ UNCHANGED <<bookings, payments, webhookEvents, charges, sent, calls, probe, poller, prices>>

\* ------------------------------------------ PaymentService.pollPaymentStatus
AttemptLimits == (0..MaxAttempts) \cup {DefaultMaxAttempts}

\* The slot in which the poller's calls of getPaymentStatus run.
PollerSlot == 1

Terminal == {"SUCCEEDED", "FAILED", "CANCELLED"}

\* Math.min(Math.pow(2, attempt) * 1000, 30000).
Min(a, b) == IF a <= b THEN a ELSE b
DelayMs_NoCap(attempt) == (2 ^ attempt) * MsPerSecond

DelayMs(attempt) == Min((2 ^ attempt) * MsPerSecond, BackoffCapMs)

\* pollPaymentStatus(referenceNumber, maxAttempts) is called.
PollerStart ==
  /\ poller.pc = "idle"
  /\ \E ref \in 1..MaxCharges, maxAttempts \in AttemptLimits :
       poller' = [NoPoller EXCEPT !.pc = "attempt", !.ref = ref, !.maxAttempts = maxAttempts]
  /\ UNCHANGED <<bookings, payments, webhookEvents, charges, sent, procs, last, calls,
                 probe, prices>>

\* The head of the loop and the fetch of getPaymentStatus.
PollerFetch ==
  /\ poller.pc = "attempt" /\ poller.attempt < poller.maxAttempts
  /\ ~InFlight(PollerSlot)
  /\ \E status \in Reported \cup {"error"} :
       /\ GatewayFetch(PollerSlot, poller.ref, status)
       /\ poller' = [poller EXCEPT !.pc = "fetching", !.status = status,
                                   !.fetches = @ + 1,
                                   !.allPending = @ /\ status = "PENDING"]
  /\ UNCHANGED <<bookings, payments, webhookEvents, charges, sent, calls, probe, prices>>

\* Variant: FAILED does not end the polling.
PollerResume_FailedGoesOn ==
  /\ poller.pc = "fetching" /\ ~InFlight(PollerSlot)
  /\ poller' =
       IF last.res # "ok"
       THEN [poller EXCEPT !.pc = "attempt", !.attempt = @ + 1,
               !.wait = IF poller.attempt < poller.maxAttempts - 1 THEN ErrorDelayMs ELSE 0]
       ELSE IF poller.status \in {"SUCCEEDED", "CANCELLED"}
       THEN [poller EXCEPT !.pc = "done", !.result = poller.status, !.wait = 0]
       ELSE [poller EXCEPT !.pc = "attempt", !.attempt = @ + 1, !.pendings = @ + 1,
               !.wait = DelayMs(poller.attempt)]
  /\ UNCHANGED <<bookings, payments, webhookEvents, charges, sent, procs, last, calls,
                 probe, prices>>

\* getPaymentStatus has returned or thrown: a terminal status is returned, any
\* other status is followed by the backoff delay, an error by the fixed delay
\* unless this was the last attempt.
PollerResume ==
  /\ poller.pc = "fetching" /\ ~InFlight(PollerSlot)
  /\ poller' =
       IF last.res # "ok"
       THEN [poller EXCEPT !.pc = "attempt", !.attempt = @ + 1,
               !.wait = IF poller.attempt < poller.maxAttempts - 1 THEN ErrorDelayMs ELSE 0]
       ELSE IF poller.status \in Terminal
       THEN [poller EXCEPT !.pc = "done", !.result = poller.status, !.wait = 0]
       ELSE [poller EXCEPT !.pc = "attempt", !.attempt = @ + 1, !.pendings = @ + 1,
               !.wait = DelayMs(poller.attempt)]
  /\ UNCHANGED <<bookings, payments, webhookEvents, charges, sent, procs, last, calls,
                 probe, prices>>

\* Variant: the loop gives up one attempt early.
PollerTimeout_OneShort ==
  /\ poller.pc = "attempt" /\ poller.attempt >= poller.maxAttempts - 1
  /\ poller' = [poller EXCEPT !.pc = "done", !.result = "timeout"]
  /\ UNCHANGED <<bookings, payments, webhookEvents, charges, sent, procs, last, calls,
                 probe, prices>>

\* The loop has run out: the timeout error is thrown.
PollerTimeout ==
  /\ poller.pc = "attempt" /\ poller.attempt >= poller.maxAttempts
  /\ poller' = [poller EXCEPT !.pc = "done", !.result = "timeout"]
  /\ UNCHANGED <<bookings, payments, webhookEvents, charges, sent, procs, last, calls,
                 probe, prices>>

\* ------------------------------------------------- the completion process
\* The time-based process that completes a confirmed booking once its interval
\* has elapsed.
ExternalComplete ==
  /\ \E b \in BookingIds :
       /\ bookings[b].status = "CONFIRMED"
       /\ bookings' = [bookings EXCEPT ![b].status = "COMPLETED"]
  /\ UNCHANGED <<payments, webhookEvents, charges, sent, procs, last, calls, probe, poller, prices>>

\* ------------------------------------------------------------ the system
\* No request in flight, no webhook event recorded, no notification sent, the
\* parking spots at their listed prices.
Quiet ==
  /\ webhookEvents = {}
  /\ sent = [r \in 1..MaxCharges |-> [owner |-> 0, guest |-> 0]]
  /\ procs = [p \in Procs |-> Idle]
  /\ last = [op |-> "none", res |-> "none"]
  /\ poller = NoPoller
  /\ prices = [i \in DOMAIN spots |-> spots[i].pricePerHour]

\* The database after the migrations: every table is empty.
Init ==
  /\ Quiet
  /\ bookings = <<>>
  /\ payments = <<>>
  /\ charges = 0
  /\ calls = LifePolls
  /\ probe = NoProbe

\* Bookings, their cancellation, their payment and its reconciliation by polling.
Next ==
  \/ \E p \in Procs :
       \/ CreateValidate(p)
       \/ CreateOverlap(p)
       \/ CreateInsert(p)
       \/ CancelFind(p)
       \/ CancelFindPayment(p)
       \/ CancelPayment(p)
       \/ CancelUpdate(p)
       \/ PayFind(p)
       \/ PayExisting(p)
       \/ PayCharge(p)
       \/ PayInsert(p)
       \/ PollFetch(p)
       \/ PollUpdatePayment(p)
       \/ PollFindForBooking(p)
       \/ PollUpdateBooking(p)
       \/ PollOwnerEmail(p)
       \/ PollGuestEmail(p)
  \/ ExternalComplete

Spec == Init /\ [][Next]_vars

\* ---------------------------------------------- the overlap query alone
ProbeTimes == 0..ProbeTime

\* One row of the bookings table (of spot 1 or 2, of any status) and one request
\* for spot 1, both with start < end.
InitOverlap ==
  /\ Quiet
  /\ bookings = <<>>
  /\ payments = <<>>
  /\ charges = 0
  /\ calls = 0
  /\ probe \in [spot : {1, 2}, status : BookingStatus, s : ProbeTimes, e : ProbeTimes,
                S : ProbeTimes, E : ProbeTimes, out : {"none"}]
  /\ probe.s < probe.e /\ probe.S < probe.E

\* The overlap query of create, evaluated on the row for the request.
EvalOverlap ==
  /\ probe.out = "none"
  /\ probe' = [probe EXCEPT !.out =
        IF OverlapWhere([parkingSpotId |-> probe.spot, status |-> probe.status,
                         startTime |-> probe.s, endTime |-> probe.e], 1, probe.S, probe.E)
        THEN "match" ELSE "free"]
  /\ UNCHANGED <<bookings, payments, webhookEvents, charges, sent, procs, last, calls,
                 poller, prices>>

SpecOverlap == InitOverlap /\ [][EvalOverlap]_vars

\* ------------------------------- create on a populated table
\* The rows create can have inserted for spot 1 on requests of one user (the
\* overlap query does not read the userId of a row).
Rows ==
  {[parkingSpotId |-> 1, userId |-> u, startTime |-> s, endTime |-> e,
    totalPrice |-> TotalPrice(s, e, spots[1].pricePerHour), status |-> st] :
     u \in {"alice"}, s \in Times, e \in Times, st \in BookingStatus}

\* The paid bookings of a table: CONFIRMED and COMPLETED are reached by a payment.
Paid(table) == {i \in DOMAIN table : table[i].status \in {"CONFIRMED", "COMPLETED"}}

\* The payment status a reconciled payment has left a booking of this status with.
PaymentStatusOf(bookingStatus) ==
  CASE bookingStatus = "PENDING" -> "PENDING"
    [] bookingStatus \in {"CONFIRMED", "COMPLETED"} -> "SUCCEEDED"
    [] OTHER -> "FAILED"

\* The payments table of a table of bookings of which those in `with` have a payment.
RECURSIVE PaymentsFor(_, _, _, _)
PaymentsFor(table, with, i, acc) ==
  IF i > Len(table) THEN acc
  ELSE PaymentsFor(table, with, i + 1,
         IF i \in with
         THEN Append(acc, [referenceNumber |-> Len(acc) + 1, externalId |-> Len(acc) + 1,
                           bookingId |-> i, amount |-> ToAmount(table[i].totalPrice),
                           status |-> PaymentStatusOf(table[i].status)])
         ELSE acc)

\* A bookings table of at most InitRows rows, each in any status, and the payments
\* of the paid bookings and of some of the others.
InitCreate ==
  /\ Quiet
  /\ \E n \in 0..InitRows : bookings \in [1..n -> {r \in Rows : r.startTime < r.endTime}]
  /\ \E with \in SUBSET DOMAIN bookings :
       /\ Paid(bookings) \subseteq with
       /\ Cardinality(with) <= MaxCharges
       /\ payments = PaymentsFor(bookings, with, 1, <<>>)
  /\ charges = Len(payments)
  /\ calls = 0
  /\ probe = NoProbe

NextCreate ==
  \E p \in Procs :
    \/ CreateValidate(p)
    \/ CreateOverlap(p)
    \/ CreateInsert(p)

SpecCreate == InitCreate /\ [][NextCreate]_vars

\* ------------------------------- payment initiation on a populated table
\* The two routes that create a payment, racing.
NextPay ==
  \E p \in Procs :
    \/ InitiatePayment(p)
    \/ PostPayment(p)
    \/ PayExisting(p)
    \/ PayCharge(p)
    \/ PayInsert(p)

SpecPay == InitCreate /\ [][NextPay]_vars

\* ------------------------------------------- cancel on a populated table
NextCancel ==
  \E p \in Procs :
    \/ CancelFind(p)
    \/ CancelFindPayment(p)
    \/ CancelPayment(p)
    \/ CancelUpdate(p)

SpecCancel == InitCreate /\ [][NextCancel]_vars

\* ------------------------------------ the poller on one pending payment
\* One booking of spot 1, PENDING, and its payment, PENDING.
InitPoll ==
  /\ Quiet
  /\ bookings = <<[parkingSpotId |-> 1, userId |-> "alice", startTime |-> 0, endTime |-> 1,
                   totalPrice |-> TotalPrice(0, 1, spots[1].pricePerHour),
                   status |-> "PENDING"]>>
  /\ payments = <<[referenceNumber |-> 1, externalId |-> 1, bookingId |-> 1,
                   amount |-> ToAmount(bookings[1].totalPrice), status |-> "PENDING"]>>
  /\ charges = 1
  /\ calls = 0
  /\ probe = NoProbe

NextPoll ==
  \/ PollerStart
  \/ PollerFetch
  \/ PollerResume
  \/ PollerTimeout
  \/ \E p \in Procs :
       \/ PollUpdatePayment(p)
       \/ PollFindForBooking(p)
       \/ PollUpdateBooking(p)
       \/ PollOwnerEmail(p)
       \/ PollGuestEmail(p)

SpecPoll == InitPoll /\ [][NextPoll]_vars

\* ------------------------------ the reconciliation of one pending payment
\* One booking of spot 1, PENDING, and its payment, PENDING: the state after
\* create and initiatePayment.
InitRecon ==
  /\ Quiet
  /\ bookings = <<[parkingSpotId |-> 1, userId |-> "alice", startTime |-> 0, endTime |-> 1,
                   totalPrice |-> TotalPrice(0, 1, spots[1].pricePerHour),
                   status |-> "PENDING"]>>
  /\ payments = PaymentsFor(bookings, {1}, 1, <<>>)
  /\ charges = 1
  /\ calls = ReconCalls
  /\ probe = NoProbe

\* Webhook deliveries, polls, the requester's cancel and the completion process.
NextRecon ==
  \/ \E p \in Procs :
       \/ WebhookReceive(p)
       \/ WebhookCheckEvent(p)
       \/ WebhookRecordEvent(p)
       \/ WebhookFindPayment(p)
       \/ WebhookUpdatePayment(p)
       \/ WebhookFindForBooking(p)
       \/ WebhookUpdateBooking(p)
       \/ WebhookOwnerEmail(p)
       \/ WebhookGuestEmail(p)
       \/ PollFetch(p)
       \/ PollUpdatePayment(p)
       \/ PollFindForBooking(p)
       \/ PollUpdateBooking(p)
       \/ PollOwnerEmail(p)
       \/ PollGuestEmail(p)
       \/ CancelFind(p)
       \/ CancelFindPayment(p)
       \/ CancelPayment(p)
       \/ CancelUpdate(p)
  \/ ExternalComplete

SpecRecon == InitRecon /\ [][NextRecon]_vars

\* ------------------------------------------ the two reconcilers alone
\* Webhook deliveries and polls for one PENDING payment.
NextNotify ==
  \E p \in Procs :
    \/ WebhookReceive(p)
    \/ WebhookCheckEvent(p)
    \/ WebhookRecordEvent(p)
    \/ WebhookFindPayment(p)
    \/ WebhookUpdatePayment(p)
    \/ WebhookFindForBooking(p)
    \/ WebhookUpdateBooking(p)
    \/ WebhookOwnerEmail(p)
    \/ WebhookGuestEmail(p)
    \/ PollFetch(p)
    \/ PollUpdatePayment(p)
    \/ PollFindForBooking(p)
    \/ PollUpdateBooking(p)
    \/ PollOwnerEmail(p)
    \/ PollGuestEmail(p)

SpecNotify == InitRecon /\ [][NextNotify]_vars

\* ------------------------------------ the life of a booking's totalPrice
\* One PENDING booking of spot 1, not yet paid: the state after create.
InitPrice ==
  /\ Quiet
  /\ bookings = <<[parkingSpotId |-> 1, userId |-> "alice", startTime |-> 0, endTime |-> 1,
                   totalPrice |-> TotalPrice(0, 1, spots[1].pricePerHour),
                   status |-> "PENDING"]>>
  /\ payments = <<>>
  /\ charges = 0
  /\ calls = PriceCalls
  /\ probe = NoProbe

\* Every operation that follows the creation of a booking, and the owner's updates
\* of the spot.
NextPrice ==
  \/ \E p \in Procs :
       \/ CancelFind(p)
       \/ CancelFindPayment(p)
       \/ CancelPayment(p)
       \/ CancelUpdate(p)
       \/ DevCancelFind(p)
       \/ DevCancelPayment(p)
       \/ DevCancelUpdate(p)
       \/ PayFind(p)
       \/ PayExisting(p)
       \/ PayCharge(p)
       \/ PayInsert(p)
       \/ WebhookReceive(p)
       \/ WebhookCheckEvent(p)
       \/ WebhookRecordEvent(p)
       \/ WebhookFindPayment(p)
       \/ WebhookUpdatePayment(p)
       \/ WebhookFindForBooking(p)
       \/ WebhookUpdateBooking(p)
       \/ WebhookOwnerEmail(p)
       \/ WebhookGuestEmail(p)
       \/ PollFetch(p)
       \/ PollUpdatePayment(p)
       \/ PollFindForBooking(p)
       \/ PollUpdateBooking(p)
       \/ PollOwnerEmail(p)
       \/ PollGuestEmail(p)
  \/ UpdatePrice

SpecPrice == InitPrice /\ [][NextPrice]_vars

\* ---------------------------------------------------------------- claims
Active(b) == b.status \in {"PENDING", "CONFIRMED"}

\* The half-open intervals [s1, e1) and [s2, e2) conflict.
Conflict(s1, e1, s2, e2) == s1 < e2 /\ s2 < e1

\* C1: any two distinct bookings of the same parking spot whose status is PENDING
\* or CONFIRMED have intervals that do not conflict.
C1_NoDoubleBooking ==
  \A a \in BookingIds, b \in BookingIds :
    (a # b /\ bookings[a].parkingSpotId = bookings[b].parkingSpotId
       /\ Active(bookings[a]) /\ Active(bookings[b]))
    => ~Conflict(bookings[a].startTime, bookings[a].endTime,
                 bookings[b].startTime, bookings[b].endTime)

\* C2: of two concurrent create calls for the same spot and conflicting intervals,
\* only one succeeds: a create never inserts its booking when a conflicting active
\* booking has been inserted since its own overlap query.
C2_OneCreateWins ==
  [][\A p \in Procs :
       (procs[p].op = "create" /\ procs[p].pc = "insert" /\ procs'[p].pc = "idle")
       => ~\E b \in (procs[p].seen + 1)..Len(bookings) :
             /\ bookings[b].parkingSpotId = procs[p].spot
             /\ Active(bookings[b])
             /\ Conflict(bookings[b].startTime, bookings[b].endTime,
                         procs[p].start, procs[p].end)]_vars

\* C6: a booking whose status is CANCELLED or COMPLETED keeps that status in every
\* step of every operation.
C6_TerminalBookingStays ==
  [][\A b \in BookingIds :
       bookings[b].status \in {"CANCELLED", "COMPLETED"}
       => bookings'[b].status = bookings[b].status]_vars

\* C3: for a request [S, E) and an active booking [s, e) of the same spot, both with
\* start < end, the overlap query matches exactly when s < E and S < e.
C3_QueryIsConflict ==
  (probe.out # "none" /\ probe.spot = 1 /\ probe.status \in {"PENDING", "CONFIRMED"})
  => ((probe.out = "match") <=> Conflict(probe.s, probe.e, probe.S, probe.E))

\* The query has matched an active booking that lies strictly inside the request.
C3_Witness ==
  /\ probe.out = "match" /\ probe.spot = 1 /\ probe.status = "PENDING"
  /\ probe.S < probe.s /\ probe.e < probe.E

\* The request of a create at its overlap query touches an active booking of its
\* spot, or conflicts with one, or conflicts with one that is no longer active.
Touches(f) ==
  \E b \in BookingIds :
    /\ bookings[b].parkingSpotId = f.spot /\ Active(bookings[b])
    /\ (bookings[b].endTime = f.start \/ bookings[b].startTime = f.end)

Clashes(f) ==
  \E b \in BookingIds :
    /\ bookings[b].parkingSpotId = f.spot /\ Active(bookings[b])
    /\ Conflict(bookings[b].startTime, bookings[b].endTime, f.start, f.end)

ClashesInactive(f) ==
  \E b \in BookingIds :
    /\ bookings[b].parkingSpotId = f.spot /\ ~Active(bookings[b])
    /\ Conflict(bookings[b].startTime, bookings[b].endTime, f.start, f.end)

AtOverlapQuery(p) ==
  procs[p].op = "create" /\ procs[p].pc = "overlap" /\ procs'[p] # procs[p]

\* C4: a create whose request starts at the end of an active booking of the spot, or
\* ends at the start of one, and conflicts with no active booking, passes the
\* overlap query: it is not rejected as already booked.
C4_BackToBackAllowed ==
  [][\A p \in Procs :
       (AtOverlapQuery(p) /\ Touches(procs[p]) /\ ~Clashes(procs[p]))
       => procs'[p].pc = "insert"]_vars

\* A booking has been created right after an active booking of the same spot.
C4_Witness ==
  /\ last = [op |-> "create", res |-> "created"]
  /\ \E b \in 1..(Len(bookings) - 1) :
       /\ Active(bookings[b])
       /\ bookings[b].parkingSpotId = bookings[Len(bookings)].parkingSpotId
       /\ bookings[b].endTime = bookings[Len(bookings)].startTime

\* C5: a create whose request conflicts only with CANCELLED or COMPLETED bookings of
\* the spot passes the overlap query, and its insert then succeeds.
C5_InactiveNeverBlocks ==
  [][\A p \in Procs :
       /\ (AtOverlapQuery(p) /\ ClashesInactive(procs[p]) /\ ~Clashes(procs[p]))
          => procs'[p].pc = "insert"
       /\ (procs[p].op = "create" /\ procs[p].pc = "insert" /\ procs'[p] # procs[p])
          => (last'.res = "created" /\ Len(bookings') = Len(bookings) + 1)]_vars

\* A booking has been created over the interval of a cancelled booking of the spot.
C5_Witness ==
  /\ last = [op |-> "create", res |-> "created"]
  /\ \E b \in 1..(Len(bookings) - 1) :
       /\ bookings[b].status = "CANCELLED"
       /\ bookings[b].parkingSpotId = bookings[Len(bookings)].parkingSpotId
       /\ Conflict(bookings[b].startTime, bookings[b].endTime,
                   bookings[Len(bookings)].startTime, bookings[Len(bookings)].endTime)

Steps(p) == procs'[p] # procs[p]

Reconciles(p) == procs[p].op \in {"webhook", "poll"}

\* C7: a delivery of a webhook event whose id is already recorded (the event has
\* been delivered before, or is being delivered concurrently) is acknowledged and
\* applies nothing: no booking transition, no payment update, no notification.
C7_ReplayIsAcknowledged ==
  [][\A p \in Procs :
       (/\ procs[p].op = "webhook" /\ procs[p].pc \in {"checkEvent", "recordEvent"}
        /\ procs[p].ev[1] = "tx" /\ procs[p].ev \in webhookEvents
        /\ Steps(p))
       => (/\ procs'[p] = Idle
           /\ last' = [op |-> "webhook", res |-> "received"]
           /\ UNCHANGED <<bookings, payments, sent, webhookEvents>>)]_vars

\* The payment rows the reconciliation p is about.
RowsOf(p) ==
  IF procs[p].ref # 0 THEN PaymentsByRef(procs[p].ref) ELSE PaymentsByExt(procs[p].ext)

\* C8: a reconciliation, by poll or by webhook, that began when the payment and its
\* booking already had the reported terminal status is a no-op: it dispatches no
\* notification, and while they still have that status it rewrites neither the
\* payment nor the booking to another value.
C8_SameStatusIsNoOp ==
  [][\A p \in Procs :
       (Reconciles(p) /\ procs[p].settled /\ Steps(p))
       => /\ sent' = sent
          /\ Settled(RowsOf(p), procs[p].rep) => UNCHANGED <<payments, bookings>>]_vars

\* C9: for each payment the owner notification and the requester confirmation are
\* each dispatched at most once, and only by a reconciliation that has changed the
\* payment status from another value to SUCCEEDED.
C9_NotifiedOnceOnChange ==
  [][/\ \A r \in DOMAIN sent : sent'[r].owner <= 1 /\ sent'[r].guest <= 1
     /\ \A p \in Procs :
          (Reconciles(p) /\ Steps(p) /\ sent' # sent) => procs[p].prev # "SUCCEEDED"]_vars

\* C10: two reconciliations of the same payment that run concurrently and both
\* report SUCCEEDED do not both dispatch the confirmation notifications.
C10_NoConcurrentDoubleDispatch ==
  \A p \in Procs, q \in Procs :
    (p # q /\ Reconciles(p) /\ Reconciles(q) /\ procs[p].ref = procs[q].ref
       /\ procs[p].rep = "SUCCEEDED" /\ procs[q].rep = "SUCCEEDED")
    => ~(procs[p].mailed /\ procs[q].mailed)

\* C11: in every state with no operation in flight, a SUCCEEDED payment has a
\* CONFIRMED or COMPLETED booking, a FAILED or CANCELLED payment has a CANCELLED
\* booking, and a CONFIRMED booking has a SUCCEEDED payment.
C11_StatusesAgree ==
  (\A p \in Procs : ~InFlight(p))
  => /\ \A i \in PaymentIds :
          /\ payments[i].status = "SUCCEEDED"
             => bookings[payments[i].bookingId].status \in {"CONFIRMED", "COMPLETED"}
          /\ payments[i].status \in {"FAILED", "CANCELLED"}
             => bookings[payments[i].bookingId].status = "CANCELLED"
     /\ \A b \in BookingIds :
          bookings[b].status = "CONFIRMED"
          => \E i \in PaymentsOf(b) : payments[i].status = "SUCCEEDED"

\* The reconciliation p is at its booking.update.
AtUpdateBooking(p) == Reconciles(p) /\ procs[p].pc = "updateBooking" /\ Steps(p)

\* C12: a step that sets a booking to CONFIRMED is the booking.update of a
\* reconciliation of that booking's payment whose reported status is SUCCEEDED.
C12_ConfirmedOnlyBySucceeded ==
  [][\A b \in BookingIds :
       (bookings'[b].status = "CONFIRMED" /\ bookings[b].status # "CONFIRMED")
       => \E p \in Procs :
            AtUpdateBooking(p) /\ procs[p].bk = b /\ procs[p].rep = "SUCCEEDED"]_vars

\* A reconciliation that reported SUCCEEDED has moved a PENDING booking to CONFIRMED.
C12_Witness ==
  \E p \in Procs :
    /\ Reconciles(p) /\ procs[p].rep = "SUCCEEDED" /\ procs[p].moved = "PENDING"
    /\ bookings[procs[p].bk].status = "CONFIRMED"

\* C13: a reconciliation that finds its payment writes CONFIRMED to the booking for
\* a reported SUCCEEDED and CANCELLED for a reported FAILED or CANCELLED; one that
\* reports PENDING changes no booking.
C13_ReportedStatusMapsToBooking ==
  [][\A p \in Procs :
       (Reconciles(p) /\ Steps(p))
       => /\ (procs[p].pc = "findForBooking" /\ PaymentsByRef(procs[p].ref) # {}
                /\ procs[p].rep \in {"SUCCEEDED", "FAILED", "CANCELLED"})
             => procs'[p].pc = "updateBooking"
          /\ (procs[p].pc = "updateBooking" /\ procs[p].rep = "SUCCEEDED")
             => bookings'[procs[p].bk].status = "CONFIRMED"
          /\ (procs[p].pc = "updateBooking" /\ procs[p].rep \in {"FAILED", "CANCELLED"})
             => bookings'[procs[p].bk].status = "CANCELLED"
          /\ procs[p].rep = "PENDING" => bookings' = bookings]_vars

\* A reconciliation that reported FAILED has returned, leaving the payment FAILED
\* and its booking CANCELLED.
C13_Witness ==
  /\ last.op \in {"webhook", "poll"} /\ last.res \in {"received", "ok"}
  /\ \E i \in PaymentIds :
       /\ payments[i].status = "FAILED"
       /\ bookings[payments[i].bookingId].status = "CANCELLED"

\* C14: the reconciliation that moves a PENDING payment to SUCCEEDED, by webhook or
\* by poll, writes CONFIRMED to the booking and dispatches one requester
\* confirmation before it returns.
C14_FirstSuccessConfirmsAndNotifies ==
  [][\A p \in Procs :
       (Reconciles(p) /\ procs[p].rep = "SUCCEEDED" /\ procs[p].prev = "PENDING" /\ Steps(p))
       => /\ procs[p].pc = "updateBooking" => bookings'[procs[p].bk].status = "CONFIRMED"
          /\ procs[p].pc = "guestEmail"
             => sent'[procs[p].ref].guest = sent[procs[p].ref].guest + 1]_vars

\* C15: no state is reachable in which a cancel has cancelled the PENDING payment of
\* a booking while the booking itself is still PENDING.
C15_CancelIsOneOperation ==
  \A p \in Procs :
    ~(/\ procs[p].op = "cancel" /\ procs[p].pc = "update" /\ procs[p].ref # 0
      /\ StatusOfRef(procs[p].ref) = "CANCELLED"
      /\ bookings[procs[p].bk].status = "PENDING")

CancelErrors ==
  {"NotFound: booking", "BadRequest: not your booking", "BadRequest: already cancelled",
   "BadRequest: completed"}

C17_CancelOnlyWhilePending ==
  [][\A p \in Procs :
       (procs[p].op = "cancel" /\ Steps(p))
       => \A b \in BookingIds :
            bookings[b].status = "CONFIRMED"
            => /\ bookings'[b] = bookings[b]
               /\ \A i \in PaymentsOf(b) : payments'[i] = payments[i]]_vars

\* C18: once the user's cancel of a booking has returned and the booking is
\* CANCELLED, a reconciliation of its payment that reports SUCCEEDED leaves the
\* booking CANCELLED and dispatches nothing.
C18_SuccessAfterCancelIsNoOp ==
  [][\A p \in Procs :
       (/\ Reconciles(p) /\ procs[p].rep = "SUCCEEDED" /\ Steps(p)
        /\ last = [op |-> "cancel", res |-> "cancelled"])
       => \A i \in RowsOf(p) :
            bookings[payments[i].bookingId].status = "CANCELLED"
            => /\ bookings'[payments[i].bookingId].status = "CANCELLED"
               /\ sent' = sent]_vars

\* C19: a reconciliation whose reported status is none of PENDING, SUCCEEDED, FAILED
\* and CANCELLED changes no payment and no booking and returns without an error.
C19_UnknownStatusIsNoOp ==
  [][\A p \in Procs :
       (Reconciles(p) /\ procs[p].rep \notin PaymentStatus /\ Steps(p))
       => /\ UNCHANGED <<payments, bookings>>
          /\ ~InFlight(p)' => last'.res \in {"received", "ok"}]_vars

\* C20: a reconciliation that finds no local payment for its external id or its
\* reference number changes no payment and no booking and returns without an error.
C20_UnknownPaymentIsNoOp ==
  [][\A p \in Procs :
       (/\ Reconciles(p) /\ procs[p].pc \in {"findPayment", "updatePayment"}
        /\ RowsOf(p) = {} /\ Steps(p))
       => /\ UNCHANGED <<payments, bookings>>
          /\ ~InFlight(p)' /\ last'.res \in {"received", "ok"}]_vars

\* C21: a webhook delivery that has returned has either been acknowledged with
\* {received: true} or been refused for its signature: no other failure leaves
\* handleWebhook.
C21_WebhookAcknowledges ==
  last.op = "webhook" => last.res \in {"received", "error: signature"}

\* C22: with a webhook secret configured, a delivery whose signature is invalid,
\* absent or the literal 'test' is refused in its first step: it starts no
\* processing and changes no table.
C22_UnverifiedIsRefused ==
  [][\A p \in Procs, sig \in {"invalid", "absent", "test"}, malformed \in BOOLEAN,
        kind \in EventKeys, ext \in 0..MaxCharges, typ \in EventTypes, status \in Reported :
       Deliver(p, TRUE, sig, malformed, kind, ext, typ, status)
       => /\ procs'[p] = Idle
          /\ last' = [op |-> "webhook", res |-> "error: signature"]
          /\ UNCHANGED <<bookings, payments, webhookEvents>>]_vars

\* The poller takes up the outcome of the fetch of this attempt.
Resumes == poller.pc = "fetching" /\ poller'.pc # "fetching"

\* The fetch of this attempt has come back with the gateway's status.
Fetched == poller.status # "error" /\ last.res = "ok"

\* C23: when a fetch of pollPaymentStatus reports SUCCEEDED, FAILED or CANCELLED,
\* the poller returns that status with no wait, the booking is CONFIRMED for
\* SUCCEEDED and CANCELLED otherwise, and a poller that has returned fetches and
\* waits no more.
C23_TerminalStopsPolling ==
  [][/\ (Resumes /\ Fetched /\ poller.status \in {"SUCCEEDED", "FAILED", "CANCELLED"})
        => /\ poller'.pc = "done" /\ poller'.result = poller.status
           /\ poller'.wait = 0 /\ poller'.fetches = poller.fetches
           /\ bookings[BookingOfRef(poller.ref)].status =
                IF poller.status = "SUCCEEDED" THEN "CONFIRMED" ELSE "CANCELLED"
     /\ poller.pc = "done" => poller' = poller]_vars

\* PENDING has been reported five times and then FAILED: the poller has returned
\* FAILED after six fetches and the booking is CANCELLED.
C23_Witness ==
  /\ poller.pc = "done" /\ poller.result = "FAILED"
  /\ poller.pendings = 5 /\ poller.fetches = 6
  /\ bookings[1].status = "CANCELLED"

C25_BackoffIsCappedPowerOfTwo ==
  [][(Resumes /\ Fetched /\ poller.status \notin {"SUCCEEDED", "FAILED", "CANCELLED"})
     => /\ poller'.pc = "attempt"
        /\ poller'.wait = CASE poller.attempt = 0 -> 1000
                            [] poller.attempt = 1 -> 2000
                            [] poller.attempt = 2 -> 4000
                            [] poller.attempt = 3 -> 8000
                            [] poller.attempt = 4 -> 16000
                            [] OTHER -> 30000]_vars

\* The poller has waited 30 seconds after its seventh PENDING in a row.
C25_Witness ==
  /\ poller.pc = "attempt" /\ poller.wait = 30000
  /\ poller.attempt = 7 /\ poller.pendings = 7 /\ poller.allPending

\* C26: a failed fetch counts as an attempt and, unless it was the last one, is
\* followed by a wait of 5 seconds; it does not advance the backoff: the wait after a
\* fetch without a terminal status is that of the number of such fetches before it.
C26_ErrorKeepsBackoff ==
  [][/\ (Resumes /\ ~Fetched)
        => /\ poller'.attempt = poller.attempt + 1
           /\ poller.attempt < poller.maxAttempts - 1 => poller'.wait = 5000
     /\ (Resumes /\ Fetched /\ poller.status \notin {"SUCCEEDED", "FAILED", "CANCELLED"})
        => poller'.wait = IF poller.pendings < 5 THEN (2 ^ poller.pendings) * 1000
                          ELSE 30000]_vars

\* The outcomes of create that are exceptions.
CreateErrors ==
  {"NotFound: spot", "BadRequest: spot not available", "BadRequest: own spot",
   "BadRequest: end after start", "BadRequest: start in the past",
   "BadRequest: already booked"}

\* The request of slot p has been refused and nothing was written.
Refused(p) ==
  /\ procs'[p] = Idle
  /\ last'.op = "create" /\ last'.res \in CreateErrors
  /\ UNCHANGED <<bookings, payments>>

\* C27: a create request naming a spot that does not exist, is not APPROVED or is
\* owned by the requester throws and writes nothing; every booking a create inserts
\* is on an APPROVED spot that its user does not own.
C27_BadSpotIsRefused ==
  [][/\ \A p \in Procs, user \in Users, spot \in SpotIds, s \in Times, e \in Times,
          now \in Times :
          (/\ ~InFlight(p)
           /\ CreateRequest(p, user, spot, s, e, now)
           /\ \/ spot \notin DOMAIN spots
              \/ spots[spot].status # "APPROVED"
              \/ spots[spot].ownerId = user)
          => Refused(p)
     /\ \A b \in DOMAIN bookings' \ DOMAIN bookings :
          /\ bookings'[b].parkingSpotId \in DOMAIN spots
          /\ spots[bookings'[b].parkingSpotId].status = "APPROVED"
          /\ spots[bookings'[b].parkingSpotId].ownerId # bookings'[b].userId]_vars

\* The owner's request for the owner's spot has been refused, after a request of
\* another user for that spot was accepted.
C27_Witness ==
  /\ last = [op |-> "create", res |-> "BadRequest: own spot"]
  /\ \E b \in BookingIds : bookings[b].userId = "bob" /\ bookings[b].parkingSpotId = 1
  /\ \A b \in BookingIds : bookings[b].userId # "owner"

CeilToCents(num, den) == (num + den - 1) \div den

\* C29: the totalPrice of a booking that create inserts is the hours of its interval
\* times the spot's hourly price, rounded up to the next centavo.
C29_PriceIsRoundedUp ==
  [][\A b \in DOMAIN bookings' \ DOMAIN bookings :
       bookings'[b].totalPrice =
         CeilToCents((bookings'[b].endTime - bookings'[b].startTime)
                        * prices[bookings'[b].parkingSpotId], TicksPerHour)]_vars

\* C30: no step after its creation changes the totalPrice of a booking: not cancel,
\* devCancel, the creation of its payment, a webhook or poll reconciliation, or an
\* update of the spot's hourly price.
C30_TotalPriceIsImmutable ==
  [][/\ DOMAIN bookings' = DOMAIN bookings
     /\ \A b \in DOMAIN bookings :
          bookings'[b].totalPrice = bookings[b].totalPrice]_vars

\* The booking has been paid for, a webhook delivery has been recorded, the spot's
\* hourly price has been changed and devCancel has cancelled the booking: its
\* totalPrice is still the one computed at the listed price.
C30_Witness ==
  /\ last = [op |-> "devCancel", res |-> "cancelled"]
  /\ bookings[1].status = "CANCELLED"
  /\ PaymentsOf(1) # {} /\ webhookEvents # {}
  /\ prices[1] # spots[1].pricePerHour
  /\ bookings[1].totalPrice = TotalPrice(0, 1, spots[1].pricePerHour)

\* The request of slot p creates a gateway charge or a payment row in this step.
Charges(p) ==
  /\ procs[p].op \in {"pay", "postPayment"} /\ Steps(p)
  /\ charges' > charges \/ Len(payments') > Len(payments)

\* C31: for a booking of the table, a gateway charge or a payment row is created
\* only while the booking is PENDING, by either route.
C31_PaymentOnlyForPending ==
  [][\A p \in Procs :
       (Charges(p) /\ procs[p].bk \in BookingIds)
       => bookings[procs[p].bk].status = "PENDING"]_vars

\* C32: cancel called by a user who is not the booking's requester, the owner of the
\* spot included, throws and writes nothing; every write of cancel to a booking or
\* to its payment is made for the booking's requester.
C32_OnlyRequesterCancels ==
  [][/\ \A p \in Procs, id \in BookingIds, user \in Users :
          (/\ ~InFlight(p)
           /\ CancelRequest(p, id, user)
           /\ bookings[id].userId # user)
          => /\ procs'[p] = Idle
             /\ last' \in {[op |-> "cancel", res |-> "NotFound: booking"],
                           [op |-> "cancel", res |-> "BadRequest: not your booking"]}
             /\ UNCHANGED <<bookings, payments>>
     /\ \A p \in Procs :
          (procs[p].op = "cancel" /\ Steps(p)
             /\ (bookings' # bookings \/ payments' # payments))
          => procs[p].user = bookings[procs[p].bk].userId]_vars

\* The owner of the spot, who may read the booking, has been refused its
\* cancellation: the booking and its payment are PENDING as before.
C32_Witness ==
  /\ last = [op |-> "cancel", res |-> "BadRequest: not your booking"]
  /\ \A p \in Procs : ~InFlight(p)
  /\ Len(bookings) = 1 /\ bookings[1].status = "PENDING"
  /\ PaymentsOf(1) # {} /\ \A i \in PaymentsOf(1) : payments[i].status = "PENDING"

\* The reconciliation of slot p is at one of its two notifications.
Notifies(p) ==
  /\ Reconciles(p) /\ procs[p].pc \in {"ownerEmail", "guestEmail"} /\ Steps(p)

\* C33: the steps of a SUCCEEDED reconciliation that dispatch the owner's and the
\* requester's notification write neither the payments nor the bookings table,
\* whether the message is handed to the mailer or the dispatch fails, and the call
\* goes on to return as a success: the webhook is acknowledged, getPaymentStatus
\* returns.
C33_NotificationFailureIsHarmless ==
  [][\A p \in Procs :
       Notifies(p)
       => /\ UNCHANGED <<bookings, payments>>
          /\ procs[p].pc = "ownerEmail" => procs'[p].pc = "guestEmail"
          /\ procs[p].pc = "guestEmail"
             => /\ procs'[p] = Idle
                /\ last' = [op |-> procs[p].op,
                            res |-> IF procs[p].op = "webhook" THEN "received" ELSE "ok"]]_vars

\* A webhook reconciliation of SUCCEEDED has returned `received` although neither
\* notification reached the mailer: the payment is SUCCEEDED, the booking CONFIRMED.
C33_Witness ==
  /\ last = [op |-> "webhook", res |-> "received"]
  /\ \A p \in Procs : ~InFlight(p)
  /\ sent[1] = [owner |-> 0, guest |-> 0]
  /\ StatusOfRef(1) = "SUCCEEDED" /\ bookings[1].status = "CONFIRMED"

\* The gateway holds a charge for booking b that another request than p has created:
\* the charge of a payment row, or of an initiatePayment that has yet to insert its
\* row.
ChargedByOther(p, b) ==
  \/ PaymentsOf(b) # {}
  \/ \E q \in Procs \ {p} :
       procs[q].op = "pay" /\ procs[q].pc = "insert" /\ procs[q].bk = b

\* C34: a booking has at most one payment row, and initiatePayment creates no
\* gateway charge for a booking for which a charge already exists, also when two
\* calls for the booking race.
C34_OnePaymentOneCharge ==
  [][/\ \A b \in DOMAIN bookings' : Cardinality({i \in DOMAIN payments' :
                                       payments'[i].bookingId = b}) <= 1
     /\ \A p \in Procs :
          (procs[p].op = "pay" /\ Steps(p) /\ charges' > charges)
          => ~ChargedByOther(p, procs[p].bk)]_vars

\* The reconciliation of slot p hands the requester's notification to the mailer.
GuestDispatch(p) ==
  /\ WebhookGuestEmail(p) \/ PollGuestEmail(p)
  /\ sent'[procs[p].ref].guest = sent[procs[p].ref].guest + 1

\* C35: the two paths are one reconciler: they map every reported status to the same
\* payment status, and a reconciliation that has reached the requester's
\* notification can hand it to the mailer on either path.
C35_SameReconciler ==
  /\ \A status \in Reported : StatusFromAPI(status) = MapPaymentStatus(status)
  /\ \A p \in Procs :
       (Reconciles(p) /\ procs[p].pc = "guestEmail") => ENABLED GuestDispatch(p)

\* The recorded webhook events that carry this external id.
EventsOf(ext) == {e \in webhookEvents : e[2] = ext}

\* C36: a webhook event is recorded only when its effect has been applied: when a
\* delivery for a charge of the gateway finds no local payment, no event of that
\* charge is in the webhook_events table, so that a redelivery is not suppressed.
C36_RecordedOnlyIfApplied ==
  [][\A p \in Procs :
       (/\ procs[p].op = "webhook" /\ procs[p].pc = "findPayment" /\ Steps(p)
        /\ procs[p].ext \in 1..charges
        /\ PaymentsByExt(procs[p].ext) = {})
       => EventsOf(procs[p].ext) = {}]_vars

\* The delivery of slot p has derived its idempotency key and not yet looked it up.
AtCheckEvent(p) == procs[p].op = "webhook" /\ procs[p].pc = "checkEvent"

\* C37: the idempotency key identifies the event: two deliveries for the same payment
\* that carry different events (they report different statuses) have different keys,
\* so that neither suppresses the other.
C37_KeyIdentifiesEvent ==
  \A p \in Procs, q \in Procs :
    (/\ AtCheckEvent(p) /\ AtCheckEvent(q)
     /\ procs[p].ext = procs[q].ext /\ PaymentsByExt(procs[p].ext) # {}
     /\ procs[p].rep # procs[q].rep)
    => procs[p].ev # procs[q].ev

\* C38: a reconciliation, by webhook or by poll, that reports PENDING or a status
\* it does not know leaves a payment whose status is SUCCEEDED, FAILED or CANCELLED
\* as it is, and no step sets such a payment back to PENDING.
C38_TerminalPaymentStays ==
  [][/\ \A p \in Procs :
          (/\ Reconciles(p) /\ procs[p].pc = "updatePayment" /\ Steps(p)
           /\ procs[p].rep \notin {"SUCCEEDED", "FAILED", "CANCELLED"}
           /\ PaymentsByRef(procs[p].ref) # {}
           /\ StatusOfRef(procs[p].ref) \in {"SUCCEEDED", "FAILED", "CANCELLED"})
          => payments' = payments
     /\ \A i \in DOMAIN payments :
          payments[i].status \in {"SUCCEEDED", "FAILED", "CANCELLED"}
          => payments'[i].status # "PENDING"]_vars

\* C39: the payment row a request inserts, by either route, is for a booking of the
\* caller and its amount is that booking's totalPrice in centavos.
C39_AmountIsTotalPrice ==
  [][\A p \in Procs :
       (procs[p].op \in {"pay", "postPayment"} /\ Steps(p)
          /\ Len(payments') > Len(payments))
       => LET row == payments'[Len(payments')] IN
            /\ row.bookingId \in BookingIds
            /\ row.amount = ToAmount(bookings[row.bookingId].totalPrice)
            /\ bookings[row.bookingId].userId = procs[p].user]_vars
====
